---- MODULE Spec2Model ----
(***************************************************************************)
(* config-manager: the v2 HTTP handlers (internal/http/v2/handlers.go)     *)
(* over the profile store, and the dispatch coordinator of the             *)
(* inventory consumer.                                                     *)
(*                                                                         *)
(* Every handler is a sequence of store calls.  One store call is one      *)
(* transaction, so a handler is split into one step per store call; what   *)
(* a handler computes between two store calls is local and belongs to the  *)
(* step of the store call that follows it.                                 *)
(***************************************************************************)
EXTENDS Integers, Sequences, FiniteSets, TLC

\* ------------------------------------------------------------------ bounds
MaxRequests == 3
MaxTriggers == 2
MaxAttempts == 2

Reqs == 1..MaxRequests

\* ------------------------------------------------------- program constants
StatusOK == 200
StatusCreated == 201
StatusNotModified == 304
StatusBadRequest == 400
StatusInternalServerError == 500

\* REPLICAS: the instances of the inventory-consumer deployment.
Replicas == 3

Workers == 1..Replicas

\* The identities the X-Rh-Identity header can carry: an org and its account.
Identities ==
    { [org |-> "org1", account |-> "acct1"],
      [org |-> "org2", account |-> "acct2"] }

Orgs == { i.org : i \in Identities }

\* The four fields createProfile overrides.
Fields == {"active", "insights", "remediations", "compliance"}

\* config.DefaultConfig.ServiceConfig, unmarshalled: the default state map.
defaultState ==
    [insights |-> "enabled", compliance_openscap |-> "enabled",
     remediations |-> "enabled"]

\* A db.Profile.  id 0 is the zero value (no profile).
NoProfile ==
    [id |-> 0, org |-> "", account |-> "", active |-> FALSE,
     insights |-> FALSE, remediations |-> FALSE, compliance |-> FALSE]

VARIABLES
    store,      \* the profiles table: versions in the order they were created
    nextID,     \* the number of generated version IDs that were stored
    reqs,       \* per request: handler, position and locals
    response,   \* the response written last
    dispatches, \* the dispatch records, in the order they were created
    workers,    \* per consumer worker: position and the host it handles
    triggers,   \* the number of triggers consumed so far
    coalesced   \* the host whose trigger was coalesced last, as logged

vars ==
    <<store, nextID, reqs, response, dispatches, workers, triggers, coalesced>>
httpVars == <<store, nextID, reqs, response>>
dispatchVars == <<dispatches, workers, triggers, coalesced>>

\* ---------------------------------------------------------------- db layer

\* db.NewProfile: a profile with a generated ID whose fields are read off the state map.
NewProfile(orgID, accountID, state, id) ==
    [id |-> id, org |-> orgID, account |-> accountID, active |-> TRUE,
     insights |-> (state.insights = "enabled"),
     remediations |-> (state.remediations = "enabled"),
     compliance |-> (state.compliance_openscap = "enabled")]

\* db.CopyProfile: the same profile under a newly generated ID.
CopyProfile(from, id) == [from EXCEPT !.id = id]

\* Profile.Equal: the same configuration for the same tenant; the ID is not compared.
Equal(p, q) ==
    /\ p.org = q.org
    /\ p.account = q.account
    /\ p.active = q.active
    /\ p.insights = q.insights
    /\ p.remediations = q.remediations
    /\ p.compliance = q.compliance

\* Profile.StateConfig: the state map of a profile.
StateConfig(p) ==
    [insights |-> IF p.insights THEN "enabled" ELSE "disabled",
     compliance_openscap |-> IF p.compliance THEN "enabled" ELSE "disabled",
     remediations |-> IF p.remediations THEN "enabled" ELSE "disabled"]

OrgIndexes(st, orgID) == { i \in DOMAIN st : st[i].org = orgID }

\* db.CountProfiles
CountProfiles(st, orgID) == Cardinality(OrgIndexes(st, orgID))

\* db.GetCurrentProfile: the most recently created version of the org; an error
\* (NoProfile here) when the org has none.
GetCurrentProfile(st, orgID) ==
    IF OrgIndexes(st, orgID) = {} THEN NoProfile
    ELSE st[CHOOSE i \in OrgIndexes(st, orgID) :
                \A j \in OrgIndexes(st, orgID) : j <= i]

\* db.GetProfile: the version with this ID, of whatever org; NoProfile when there is none.
GetProfile(st, id) ==
    IF \E i \in DOMAIN st : st[i].id = id
    THEN st[CHOOSE i \in DOMAIN st : st[i].id = id]
    ELSE NoProfile

\* db.InsertProfile fails when the store is unavailable, when an identity field
\* is missing, or when the ID is already stored.
InsertError(st, p, dbOK) ==
    \/ ~dbOK
    \/ p.id = 0
    \/ p.org = ""
    \/ \E i \in DOMAIN st : st[i].id = p.id

\* db.InsertProfile: a new row; no row is changed.
InsertProfile(st, p) == Append(st, p)

\* db.GetOrInsertCurrentProfile: the org's current profile, the given one being
\* inserted first when the org has none; one transaction.
GetOrInsertCurrentProfile(st, orgID, newProfile) ==
    IF OrgIndexes(st, orgID) = {} THEN InsertProfile(st, newProfile) ELSE st

Reverse(s) == [i \in 1..Len(s) |-> s[Len(s) + 1 - i]]

\* db.GetProfiles: the org's versions, sorted, then offset and limit applied
\* (a limit of 0 is no limit).
GetProfiles(st, orgID, sortBy, limit, offset) ==
    LET own == SelectSeq(st, LAMBDA p : p.org = orgID)
        sorted == IF sortBy = "created_at:desc" THEN Reverse(own) ELSE own
        from == IF offset >= Len(sorted) THEN << >>
                ELSE SubSeq(sorted, offset + 1, Len(sorted))
    IN IF limit > 0 /\ limit < Len(from) THEN SubSeq(from, 1, limit) ELSE from

\* internal.GeneratePlaybook: one task per key of the state map, in schema order.
GeneratePlaybook(state) ==
    << <<"insights", state.insights>>,
       <<"compliance_openscap", state.compliance_openscap>>,
       <<"remediations", state.remediations>> >>

\* ------------------------------------------------------- requests, responses

NoIdentity == [org |-> "", account |-> ""]

\* json.Unmarshal of a request body into a zero db.Profile: a field the body
\* does not carry keeps the zero value.
Unmarshal(body) ==
    [NoProfile EXCEPT
        !.active = IF "active" \in DOMAIN body THEN body["active"] ELSE FALSE,
        !.insights = IF "insights" \in DOMAIN body THEN body["insights"] ELSE FALSE,
        !.remediations =
            IF "remediations" \in DOMAIN body THEN body["remediations"] ELSE FALSE,
        !.compliance =
            IF "compliance" \in DOMAIN body THEN body["compliance"] ELSE FALSE]

\* The JSON objects a caller submits here: all four fields (insights and
\* compliance on), remediations alone, or no field at all.
Bodies ==
    { b \in [Fields -> BOOLEAN] : b["insights"] /\ b["compliance"] }
        \cup [{"remediations"} -> BOOLEAN]
        \cup { << >> }

\* The "id" path parameter and the "profile_id" query parameter: empty, the
\* token "current", or the text of a version ID (stored or not).
Params ==
    { [token |-> "", id |-> 0], [token |-> "current", id |-> 0] }
        \cup { [token |-> "id", id |-> n] : n \in 1..MaxRequests }

IdleReq ==
    [pc |-> "idle", handler |-> "", ident |-> NoIdentity, total |-> 0,
     currentProfile |-> NoProfile, body |-> << >>]

\* A request that returned: its locals are gone.
Returned == [IdleReq EXCEPT !.pc = "done"]

NoResponse ==
    [handler |-> "", org |-> "", status |-> 0, profile |-> NoProfile,
     total |-> 0, results |-> << >>, playbook |-> << >>,
     param |-> [token |-> "", id |-> 0], error |-> ""]

\* The error a failed store call returns, as the message renders it (%v).
DbError(dbOK) == IF dbOK THEN "not found" ELSE "unavailable"

\* render.RenderPlain: a status and a message.
RenderPlain(handler, ident, status) ==
    [NoResponse EXCEPT !.handler = handler, !.org = ident.org, !.status = status]

\* render.RenderPlain of a message that ends with an error of the store.
RenderError(handler, ident, status, err) ==
    [RenderPlain(handler, ident, status) EXCEPT !.error = err]

\* render.RenderJSON of one profile.
RenderProfile(handler, ident, status, profile) ==
    [RenderPlain(handler, ident, status) EXCEPT !.profile = profile]

\* A request slot is taken in order; a taken slot is never taken again.
Idle(r) ==
    /\ reqs[r].pc = "idle"
    /\ \A q \in Reqs : q < r => reqs[q].pc # "idle"

\* --------------------------------------------------------------- getProfiles

\* The increment of line 71 left out.
TotalAfterInsert_Same(total) == total

\* handlers.go:71
TotalAfterInsert(total) == total + 1

\* handlers.go:26-56: the query is parsed and the org's profiles are counted.
getProfilesCount(r) ==
    /\ Idle(r)
    /\ \E ident \in Identities, queryOK \in BOOLEAN, dbOK \in BOOLEAN :
        IF ~queryOK
        THEN /\ reqs' = [reqs EXCEPT ![r] = Returned]
             /\ response' = RenderPlain("getProfiles", ident, StatusBadRequest)
        ELSE IF ~dbOK
        THEN /\ reqs' = [reqs EXCEPT ![r] = Returned]
             /\ response' =
                    RenderError("getProfiles", ident, StatusInternalServerError,
                                "unavailable")
        ELSE /\ reqs' = [reqs EXCEPT ![r] =
                    [IdleReq EXCEPT
                        !.pc = IF CountProfiles(store, ident.org) = 0
                               THEN "gps_insert" ELSE "gps_list",
                        !.handler = "getProfiles",
                        !.ident = ident,
                        !.total = CountProfiles(store, ident.org)]]
             /\ UNCHANGED response
    /\ UNCHANGED <<store, nextID, dispatchVars>>

\* handlers.go:58-72: total == 0, so a default profile is made and inserted.
getProfilesInsert(r) ==
    /\ reqs[r].pc = "gps_insert"
    /\ \E dbOK \in BOOLEAN :
        LET ident == reqs[r].ident
            newProfile ==
                NewProfile(ident.org, ident.account, defaultState, nextID + 1)
        IN IF InsertError(store, newProfile, dbOK)
           THEN /\ reqs' = [reqs EXCEPT ![r] = Returned]
                /\ response' = RenderError("getProfiles", ident,
                                           StatusInternalServerError, "insert")
                /\ UNCHANGED <<store, nextID>>
           ELSE /\ store' = InsertProfile(store, newProfile)
                /\ nextID' = nextID + 1
                /\ reqs' = [reqs EXCEPT
                             ![r].pc = "gps_list",
                             ![r].total = TotalAfterInsert(reqs[r].total)]
                /\ UNCHANGED response
    /\ UNCHANGED dispatchVars

\* handlers.go:76-97: the page of profiles is read and rendered with the total.
\* limit and offset were parsed at the start and are first used here.
getProfilesList(r) ==
    /\ reqs[r].pc = "gps_list"
    /\ \E dbOK \in BOOLEAN, sortBy \in {"created_at:desc", "created_at:asc"},
          limit \in 0..1, offset \in 0..1 :
        LET ident == reqs[r].ident IN
        /\ ~dbOK => (sortBy = "created_at:desc" /\ limit = 0 /\ offset = 0)
        /\ reqs' = [reqs EXCEPT ![r] = Returned]
        /\ response' =
            IF ~dbOK
            THEN RenderError("getProfiles", ident, StatusInternalServerError,
                             "unavailable")
            ELSE [RenderPlain("getProfiles", ident, StatusOK) EXCEPT
                    !.total = reqs[r].total,
                    !.results =
                        GetProfiles(store, ident.org, sortBy, limit, offset)]
    /\ UNCHANGED <<store, nextID, dispatchVars>>

\* ---------------------------------------------------------------- getProfile

\* handlers.go:126: the org whose current profile is looked up.
CurrentOrg(ident) == ident.org

\* handlers.go:135-139: the status of a failed db.GetProfile.
GetProfileErrorStatus == StatusInternalServerError

\* handlers.go:103-143
getProfile(r) ==
    /\ Idle(r)
    /\ \E ident \in Identities, profileID \in Params, dbOK \in BOOLEAN :
        /\ reqs' = [reqs EXCEPT ![r] = Returned]
        /\ IF profileID.token = ""
           THEN /\ response' = RenderPlain("getProfile", ident, StatusBadRequest)
                /\ UNCHANGED <<store, nextID>>
           ELSE IF profileID.token = "current"
           THEN LET newProfile ==
                        NewProfile(ident.org, ident.account, defaultState,
                                   nextID + 1)
                    after == GetOrInsertCurrentProfile(
                                store, CurrentOrg(ident), newProfile)
                IN IF ~dbOK
                   THEN /\ response' =
                             RenderError("getProfile", ident,
                                 StatusInternalServerError, "unavailable")
                        /\ UNCHANGED <<store, nextID>>
                   ELSE /\ store' = after
                        /\ nextID' = IF after = store THEN nextID
                                      ELSE nextID + 1
                        /\ response' =
                             [RenderProfile("getProfile", ident, StatusOK,
                                 GetCurrentProfile(after, CurrentOrg(ident)))
                              EXCEPT !.param = profileID]
           ELSE /\ UNCHANGED <<store, nextID>>
                /\ response' =
                    IF ~dbOK \/ GetProfile(store, profileID.id) = NoProfile
                    THEN [RenderError("getProfile", ident, GetProfileErrorStatus,
                                      DbError(dbOK))
                          EXCEPT !.param = profileID]
                    ELSE [RenderProfile("getProfile", ident, StatusOK,
                                        GetProfile(store, profileID.id))
                          EXCEPT !.param = profileID]
    /\ UNCHANGED dispatchVars

\* ------------------------------------------------------------- createProfile

\* handlers.go:176-179: the four fields are taken from the request.
Override(newProfile, requestedProfile) ==
    [newProfile EXCEPT
        !.active = requestedProfile.active,
        !.insights = requestedProfile.insights,
        !.remediations = requestedProfile.remediations,
        !.compliance = requestedProfile.compliance]

\* The comparison of line 181 left out: every request is taken as a change.
NotModified_Never(newProfile, currentProfile) == FALSE

\* handlers.go:181: the new version says nothing new.
NotModified(newProfile, currentProfile) == Equal(newProfile, currentProfile)

\* An update in place: the org's current row is overwritten.
SaveNewVersion_InPlace(st, newProfile) ==
    [i \in DOMAIN st |->
        IF st[i] = GetCurrentProfile(st, newProfile.org)
        THEN [newProfile EXCEPT !.id = st[i].id]
        ELSE st[i]]

\* handlers.go:186: the new version is stored beside the others.
SaveNewVersion(st, newProfile) == InsertProfile(st, newProfile)

\* The insert moved before the comparison: an unchanged profile is stored again.
createProfileResult_InsertFirst(st, currentProfile, requestedProfile, id, dbOK) ==
    LET newProfile ==
            Override(CopyProfile(currentProfile, id), requestedProfile)
    IN IF InsertError(st, newProfile, dbOK)
       THEN [status |-> StatusInternalServerError, profile |-> NoProfile,
             store |-> st, error |-> "insert"]
       ELSE IF NotModified(newProfile, currentProfile)
       THEN [status |-> StatusNotModified, profile |-> currentProfile,
             store |-> SaveNewVersion(st, newProfile), error |-> ""]
       ELSE [status |-> StatusCreated, profile |-> newProfile,
             store |-> SaveNewVersion(st, newProfile), error |-> ""]

\* handlers.go:175-192: the status, the profile rendered and the store after.
createProfileResult(st, currentProfile, requestedProfile, id, dbOK) ==
    LET newProfile ==
            Override(CopyProfile(currentProfile, id), requestedProfile)
    IN IF NotModified(newProfile, currentProfile)
       THEN [status |-> StatusNotModified, profile |-> currentProfile,
             store |-> st, error |-> ""]
       ELSE IF InsertError(st, newProfile, dbOK)
       THEN [status |-> StatusInternalServerError, profile |-> NoProfile,
             store |-> st, error |-> "insert"]
       ELSE [status |-> StatusCreated, profile |-> newProfile,
             store |-> SaveNewVersion(st, newProfile), error |-> ""]

\* handlers.go:150-173: the body is read and parsed, the current profile fetched.
createProfileRead(r) ==
    /\ Idle(r)
    /\ \E ident \in Identities, body \in Bodies, dbOK \in BOOLEAN,
          bodyKind \in {"json", "unreadable", "malformed"} :
        /\ bodyKind # "json" => (body = << >> /\ dbOK)
        /\ IF bodyKind = "unreadable"
           THEN /\ reqs' = [reqs EXCEPT ![r] = Returned]
                /\ response' =
                    RenderPlain("createProfile", ident, StatusBadRequest)
           ELSE IF bodyKind = "malformed"
           THEN /\ reqs' = [reqs EXCEPT ![r] = Returned]
                /\ response' =
                    RenderError("createProfile", ident,
                                StatusInternalServerError, "unmarshal")
           ELSE IF ~dbOK \/ GetCurrentProfile(store, ident.org) = NoProfile
           THEN /\ reqs' = [reqs EXCEPT ![r] = Returned]
                /\ response' =
                    RenderError("createProfile", ident,
                                StatusInternalServerError, DbError(dbOK))
           ELSE /\ reqs' = [reqs EXCEPT ![r] =
                       [IdleReq EXCEPT
                           !.pc = "cp_write",
                           !.handler = "createProfile",
                           !.ident = ident,
                           !.currentProfile =
                               GetCurrentProfile(store, ident.org),
                           !.body = body]]
                /\ UNCHANGED response
    /\ UNCHANGED <<store, nextID, dispatchVars>>

\* handlers.go:175-193: copy, override, compare, insert.
createProfileWrite(r) ==
    /\ reqs[r].pc = "cp_write"
    /\ \E dbOK \in BOOLEAN :
        LET ident == reqs[r].ident
            res == createProfileResult(store, reqs[r].currentProfile,
                                       Unmarshal(reqs[r].body), nextID + 1, dbOK)
        IN /\ store' = res.store
           /\ nextID' = IF res.store = store THEN nextID ELSE nextID + 1
           /\ reqs' = [reqs EXCEPT ![r] = Returned]
           /\ response' =
                [RenderProfile("createProfile", ident, res.status, res.profile)
                 EXCEPT !.error = res.error]
    /\ UNCHANGED dispatchVars

\* --------------------------------------------------------------- getPlaybook

\* handlers.go:197-227
getPlaybook(r) ==
    /\ Idle(r)
    /\ \E ident \in Identities, hasParam \in BOOLEAN, profileID \in Params,
          dbOK \in BOOLEAN, genOK \in BOOLEAN :
        /\ ~hasParam => (profileID.token = "" /\ dbOK /\ genOK)
        /\ ~dbOK => genOK
        /\ reqs' = [reqs EXCEPT ![r] = Returned]
        /\ response' =
            IF ~hasParam
            THEN RenderPlain("getPlaybook", ident, StatusBadRequest)
            ELSE IF ~dbOK \/ GetProfile(store, profileID.id) = NoProfile
            THEN [RenderError("getPlaybook", ident, StatusInternalServerError,
                              DbError(dbOK))
                  EXCEPT !.param = profileID]
            ELSE IF ~genOK
            THEN [RenderError("getPlaybook", ident, StatusInternalServerError,
                              "generate")
                  EXCEPT !.param = profileID]
            ELSE [RenderPlain("getPlaybook", ident, StatusOK) EXCEPT
                    !.param = profileID,
                    !.playbook = GeneratePlaybook(
                        StateConfig(GetProfile(store, profileID.id)))]
    /\ UNCHANGED <<store, nextID, dispatchVars>>

\* ------------------------------------------------------ dispatch coordinator

Hosts == {"host1", "host2"}

\* The profile versions a trigger can find current.
ProfileVersions == {1, 2}

IdleWorker == [pc |-> "idle", host |-> "", version |-> 0]

\* The Pending records of a host.
PendingOf(ds, host) ==
    { i \in DOMAIN ds : ds[i].host = host /\ ds[i].status = "pending" }

\* No constraint in the store: the record is created whatever the host has.
PendingConflict_Unchecked(ds, host) == FALSE

\* The storage-level constraint: no second Pending record for a host.
PendingConflict(ds, host) == PendingOf(ds, host) # {}

\* A record that awaits its retry: failed or timed out with attempts left.
Retryable(d) ==
    d.status \in {"failed", "timed-out"} /\ d.attempts < MaxAttempts

\* A negative acknowledgement, a failed send or a timeout of a Pending record:
\* the attempt is counted; the record is terminal once the attempts are used up.
Missed(d, status) ==
    [d EXCEPT !.attempts = d.attempts + 1,
              !.status = IF d.attempts + 1 < MaxAttempts THEN status
                         ELSE "failed"]

\* A worker takes a trigger (an event or a manual request) for a host: diff
\* against the host's last dispatched state, generate the playbook.
Trigger(w) ==
    /\ workers[w].pc = "idle"
    /\ triggers < MaxTriggers
    /\ triggers' = triggers + 1
    /\ \E host \in Hosts, version \in ProfileVersions,
          found \in BOOLEAN, emptyDiff \in BOOLEAN :
        /\ ~found => ~emptyDiff
        /\ IF ~found
           THEN \* host or profile not found: terminal, never retried
                /\ dispatches' = Append(dispatches,
                        [host |-> host, version |-> version,
                         status |-> "failed", attempts |-> MaxAttempts,
                         sent |-> FALSE])
                /\ workers' = [workers EXCEPT ![w] = IdleWorker]
           ELSE IF \/ emptyDiff
                   \/ \E i \in DOMAIN dispatches :
                        /\ dispatches[i].host = host
                        /\ dispatches[i].version = version
                        /\ dispatches[i].status = "acked"
           THEN /\ workers' = [workers EXCEPT ![w] = IdleWorker]
                /\ UNCHANGED dispatches
           ELSE /\ workers' = [workers EXCEPT ![w] =
                        [pc |-> "record", host |-> host, version |-> version]]
                /\ UNCHANGED dispatches
    /\ UNCHANGED <<coalesced, httpVars>>

\* The Pending record is created under the constraint; a trigger for a host
\* that has a Pending record is coalesced.
RecordPending(w) ==
    /\ workers[w].pc = "record"
    /\ IF PendingConflict(dispatches, workers[w].host)
       THEN /\ workers' = [workers EXCEPT ![w] = IdleWorker]
            /\ coalesced' = workers[w].host
            /\ UNCHANGED dispatches
       ELSE /\ dispatches' = Append(dispatches,
                    [host |-> workers[w].host, version |-> workers[w].version,
                     status |-> "pending", attempts |-> 0, sent |-> FALSE])
            /\ workers' = [workers EXCEPT ![w].pc = "send"]
            /\ UNCHANGED coalesced
    /\ UNCHANGED <<triggers, httpVars>>

\* The outbound send of the host's unsent Pending record; it returns at once.
Send(w) ==
    /\ workers[w].pc = "send"
    /\ \E ok \in BOOLEAN :
        dispatches' =
            [i \in DOMAIN dispatches |->
                IF /\ dispatches[i].host = workers[w].host
                   /\ dispatches[i].status = "pending"
                   /\ ~dispatches[i].sent
                THEN IF ok THEN [dispatches[i] EXCEPT !.sent = TRUE]
                     ELSE Missed(dispatches[i], "failed")
                ELSE dispatches[i]]
    /\ workers' = [workers EXCEPT ![w] = IdleWorker]
    /\ UNCHANGED <<triggers, coalesced, httpVars>>

\* An acknowledgement arrives for a sent Pending record; a malformed one
\* changes nothing.
Ack(i) ==
    /\ dispatches[i].status = "pending"
    /\ dispatches[i].sent
    /\ \E outcome \in {"success", "failure", "unknown"} :
        dispatches' = [dispatches EXCEPT ![i] =
            IF outcome = "success" THEN [@ EXCEPT !.status = "acked"]
            ELSE IF outcome = "failure" THEN Missed(@, "failed")
            ELSE @]
    /\ UNCHANGED <<workers, triggers, coalesced, httpVars>>

\* The sweep finds a sent Pending record past its deadline.
Timeout(i) ==
    /\ dispatches[i].status = "pending"
    /\ dispatches[i].sent
    /\ dispatches' = [dispatches EXCEPT ![i] = Missed(@, "timed-out")]
    /\ UNCHANGED <<workers, triggers, coalesced, httpVars>>

\* A worker retries a record with attempts left: it becomes Pending again,
\* under the same constraint, and is sent anew.
Retry(w, i) ==
    /\ workers[w].pc = "idle"
    /\ Retryable(dispatches[i])
    /\ \E version \in ProfileVersions :
        IF PendingConflict(dispatches, dispatches[i].host)
        THEN /\ coalesced' = dispatches[i].host
             /\ UNCHANGED <<dispatches, workers>>
        ELSE /\ dispatches' = [dispatches EXCEPT ![i] =
                    [@ EXCEPT !.status = "pending", !.sent = FALSE,
                              !.version = version]]
             /\ workers' = [workers EXCEPT ![w] =
                    [pc |-> "send", host |-> dispatches[i].host,
                     version |-> version]]
             /\ UNCHANGED coalesced
    /\ UNCHANGED <<triggers, httpVars>>

\* A deleted event: what is not yet sent for the host is dropped; a sent,
\* unacknowledged dispatch is left to time out.
Deleted(w) ==
    /\ workers[w].pc = "idle"
    /\ triggers < MaxTriggers
    /\ triggers' = triggers + 1
    /\ \E host \in Hosts :
        /\ dispatches' = SelectSeq(dispatches,
                LAMBDA d : ~( /\ d.host = host
                              /\ \/ d.status = "pending" /\ ~d.sent
                                 \/ Retryable(d) ))
        /\ workers' = [workers EXCEPT ![w] = IdleWorker]
    /\ UNCHANGED <<coalesced, httpVars>>

\* ------------------------------------------------------------- specification

Init ==
    /\ store = << >>
    /\ nextID = 0
    /\ reqs = [r \in Reqs |-> IdleReq]
    /\ response = NoResponse
    /\ dispatches = << >>
    /\ workers = [w \in Workers |-> IdleWorker]
    /\ triggers = 0
    /\ coalesced = ""

Next ==
    \E r \in Reqs :
        \/ getProfilesCount(r)
        \/ getProfilesInsert(r)
        \/ getProfilesList(r)
        \/ getProfile(r)
        \/ createProfileRead(r)
        \/ createProfileWrite(r)
        \/ getPlaybook(r)

Spec == Init /\ [][Next]_vars

\* One request at a time: a request starts only when none is in its handler.
InFlight(r) == reqs[r].pc \notin {"idle", "done"}

NoneInFlight == \A q \in Reqs : ~InFlight(q)

NextSeq ==
    \E r \in Reqs :
        \/ NoneInFlight /\ getProfilesCount(r)
        \/ getProfilesInsert(r)
        \/ getProfilesList(r)
        \/ NoneInFlight /\ getProfile(r)
        \/ NoneInFlight /\ createProfileRead(r)
        \/ createProfileWrite(r)
        \/ NoneInFlight /\ getPlaybook(r)

SpecSeq == Init /\ [][NextSeq]_vars

NextDispatch ==
    \/ \E w \in Workers :
        \/ Trigger(w)
        \/ RecordPending(w)
        \/ Send(w)
        \/ Deleted(w)
        \/ \E i \in DOMAIN dispatches : Retry(w, i)
    \/ \E i \in DOMAIN dispatches : Ack(i) \/ Timeout(i)

SpecDispatch == Init /\ [][NextDispatch]_vars

\* -------------------------------------------------------------------- claims

\* Request r returns from createProfile in this step.
CreateReturns(r) == reqs[r].pc = "cp_write" /\ reqs'[r].pc = "done"

\* A version is stored in this step, and not by createProfile: a default profile.
DefaultStored ==
    /\ Len(store') = Len(store) + 1
    /\ \A r \in Reqs : ~CreateReturns(r)

\* C1: whatever the interleaving of first-access requests (getProfile "current",
\* getProfiles), an org gets exactly one default profile: a default profile is
\* stored only for an org that has no version yet.
C1_OneDefaultPerOrg ==
    [][DefaultStored =>
        CountProfiles(store, store'[Len(store')].org) = 0]_vars

\* C2: a createProfile whose copied and overridden profile equals the current
\* profile it read answers 304 with that current profile and stores nothing.
C2_NotModifiedKeepsStore ==
    [][\A r \in Reqs :
        ( /\ CreateReturns(r)
          /\ Equal(Override(CopyProfile(reqs[r].currentProfile, nextID + 1),
                            Unmarshal(reqs[r].body)),
                   reqs[r].currentProfile) )
        => /\ response'.status = StatusNotModified
           /\ response'.profile = reqs[r].currentProfile
           /\ store' = store]_vars

C2_Witness ==
    /\ response.handler = "createProfile"
    /\ response.status = StatusNotModified
    /\ response.profile = GetCurrentProfile(store, response.org)
    /\ response.profile # NoProfile

\* C3: a createProfile answered 201 stores a version whose submitted fields
\* have the submitted values and whose other fields keep the values of the
\* current version the handler read.
C3_PartialOverride ==
    [][\A r \in Reqs :
        (CreateReturns(r) /\ response'.status = StatusCreated)
        => /\ store'[Len(store')] = response'.profile
           /\ \A f \in Fields :
                response'.profile[f] =
                    IF f \in DOMAIN reqs[r].body
                    THEN reqs[r].body[f]
                    ELSE reqs[r].currentProfile[f]]_vars

\* C4: an org with a version has exactly one current version, the one created
\* last; once createProfile has answered 201, the version it stored is the
\* org's current version until another response is written.
C4_CurrentIsLastCreated ==
    /\ \A o \in Orgs :
        CountProfiles(store, o) > 0 =>
            Cardinality({ i \in OrgIndexes(store, o) :
                            store[i] = GetCurrentProfile(store, o) }) = 1
    /\ (response.handler = "createProfile" /\ response.status = StatusCreated)
        => GetCurrentProfile(store, response.org) = response.profile

\* C5: no step changes or removes a stored version; a step stores at most one
\* version more, and under an ID no stored version has.
C5_VersionsImmutable ==
    [][/\ Len(store') \in {Len(store), Len(store) + 1}
       /\ \A i \in DOMAIN store : store'[i] = store[i]
       /\ Len(store') > Len(store) =>
            \A i \in DOMAIN store : store[i].id # store'[Len(store')].id]_vars

C5_Witness ==
    \E i, j \in DOMAIN store :
        /\ i < j
        /\ store[i].org = store[j].org
        /\ store[i].id # store[j].id
        /\ ~Equal(store[i], store[j])

\* C6: with one request at a time, a request for the current profile of an org
\* that has none answers a profile of the caller's org whose state is the
\* default state map and leaves the org with one version; the listing of such
\* an org stores one default version and reports a total of 1.
C6_FirstAccess ==
    [][\A r \in Reqs :
        /\ ( /\ reqs[r].pc = "idle" /\ reqs'[r].pc = "done"
             /\ response'.handler = "getProfile"
             /\ response'.param.token = "current"
             /\ response'.status = StatusOK
             /\ CountProfiles(store, response'.org) = 0 )
           => /\ StateConfig(response'.profile) = defaultState
              /\ response'.profile.org = response'.org
              /\ CountProfiles(store', response'.org) = 1
        /\ (reqs[r].pc = "gps_insert" /\ reqs'[r].pc = "gps_list")
           => /\ CountProfiles(store', reqs[r].ident.org) = 1
              /\ StateConfig(GetCurrentProfile(store', reqs[r].ident.org))
                    = defaultState
              /\ reqs'[r].total = 1
        /\ ( /\ reqs[r].pc = "gps_list" /\ reqs'[r].pc = "done"
             /\ response'.status = StatusOK )
           => /\ response'.total = reqs[r].total
              /\ response'.total = CountProfiles(store', response'.org)]_vars

C6_Witness ==
    /\ response.handler = "getProfiles"
    /\ response.status = StatusOK
    /\ response.total = 1
    /\ CountProfiles(store, response.org) = 1
    /\ StateConfig(GetCurrentProfile(store, response.org)) = defaultState

\* C7: a profile answered by getProfile or listed by getProfiles, and the
\* profile a playbook answered by getPlaybook is rendered from, belong to the
\* caller's org.
C7_TenantScoped ==
    response.status = StatusOK =>
        /\ response.handler = "getProfile"
            => response.profile.org = response.org
        /\ response.handler = "getProfiles"
            => \A i \in DOMAIN response.results :
                    response.results[i].org = response.org
        /\ response.handler = "getPlaybook"
            => GetProfile(store, response.param.id).org = response.org

\* C8: a request for a profile ID that is not stored is answered with a 4xx
\* status.
C8_NotFoundIs4xx ==
    ( /\ response.handler \in {"getProfile", "getPlaybook"}
      /\ response.error = "not found" )
    => response.status \in 400..499

\* C10: a createProfile step stores at most one version, and stores none
\* unless it answers 201.
C10_CreateInsertsOnce ==
    [][\A r \in Reqs :
        /\ (reqs[r].pc = "idle" /\ reqs'[r].handler = "createProfile")
            => store' = store
        /\ (reqs[r].pc = "idle" /\ response'.handler = "createProfile"
                /\ reqs'[r].pc = "done")
            => store' = store
        /\ CreateReturns(r)
            => /\ Len(store') <= Len(store) + 1
               /\ response'.status # StatusCreated => store' = store]_vars

C10_Witness ==
    /\ response.handler = "createProfile"
    /\ response.status = StatusInternalServerError
    /\ response.error = "insert"
    /\ store # << >>

\* C9: a host never has two Pending dispatch records, whatever the
\* interleaving of the workers; a trigger for a host with a Pending record is
\* coalesced.
C9_OnePendingPerHost ==
    \A host \in Hosts : Cardinality(PendingOf(dispatches, host)) <= 1

C9_Witness ==
    /\ coalesced \in Hosts
    /\ Cardinality(PendingOf(dispatches, coalesced)) = 1

====
